---------------------------- MODULE Spec2Model ----------------------------
(***************************************************************************)
(* A model of the two asset-localisation scripts of the repository:        *)
(*   src/framer_localize.py  (driver main, process_file, download,         *)
(*                            replace_all, filename_from_url,              *)
(*                            ensure_framer_tags)                          *)
(*   src/mirror_framer.py    (process, download, rewrite_in_text,          *)
(*                            hashed_name_from_url)                        *)
(*                                                                         *)
(* Text is a sequence of lexemes.  A lexeme is a one-character string, or  *)
(* a longer string that the scripts only ever handle as a unit (an origin  *)
(* such as "https://x.framerusercontent.com", a directory prefix such as   *)
(* "assets/images/", a closing tag such as "</head>").                     *)
(***************************************************************************)
EXTENDS Integers, Sequences, FiniteSets, TLC

VARIABLES
    \* ---- the rewriter applied to one text and one mapping
    rw_text,      \* the text handed to the rewriter
    rw_map,       \* the mapping: a sequence of <<old, new>> in dict insertion order
    rw_out,       \* the text the rewriter returned
    rw_fn,        \* "none" before the call, then the function that was called
    \* ---- the filename resolvers applied to two URLs
    nm_url1,      \* the first URL
    nm_url2,      \* the second URL
    nm_name1,     \* the filename resolved for the first URL
    nm_name2,     \* the filename resolved for the second URL
    nm_fn,        \* "none" before the calls, then the resolver that was called
    \* ---- the tag ensurer applied again and again to one HTML file
    tg_html,      \* the file's text
    tg_before,    \* the file's text before the last call
    tg_calls,     \* the number of calls made
    tg_changed,   \* what the last call returned
    tg_written,   \* whether the last call wrote the file
    \* ---- framer_localize run on a tree (main, process_file, download)
    fl_args,        \* the command-line flags
    fl_tree0,       \* the tree before the first run: documents, assets, directories
    fl_docs,        \* the text of the documents on disk
    fl_assets,      \* the asset files on disk: <<path, content>>
    fl_dirs,        \* the asset directories on disk
    fl_net,         \* the network requests made: [run, url, outcome]
    fl_call,        \* the last call of download
    fl_writes,      \* the documents written: [run, file, same]
    fl_warn,        \* the local paths a missing-file warning named
    fl_refs,        \* the local paths of the references discovered
    fl_subst,       \* the local paths substituted into a written document
    fl_run,         \* the number of the run
    fl_pc,          \* the driver's position in the file being processed
    fl_file,        \* the index of the file being processed
    fl_txt,         \* process_file's txt
    fl_original,    \* process_file's original
    fl_mapping,     \* process_file's mapping, in insertion order
    fl_todo,        \* the URLs the current loop has yet to visit
    fl_changed,     \* process_file's changed
    fl_any_changed, \* main's any_changed
    fl_stages,      \* the stages performed on the current file, in order
    fl_prev_docs,   \* the documents as the previous run left them
    \* ---- mirror_framer run on a tree (process, download)
    mr_args,        \* the command-line flags
    mr_html,        \* the text of the HTML file on disk
    mr_files,       \* the asset files on disk: <<path, content>>
    mr_net,         \* the network requests made: [run, url, outcome]
    mr_call,        \* the last call of download
    mr_writes,      \* the text files written: [run, file, same]
    mr_run,         \* the number of the run
    mr_pc,          \* the position in process
    mr_todo,        \* the URLs the current download wave has yet to visit
    mr_rem_to_loc,  \* process's rem_to_loc, in insertion order
    mr_prev,        \* the HTML file and assets as the previous run left them
    \* ---- a run that is interrupted, beside the same run left to finish
    ix_phase,       \* "whole": the runs so far went to their end
    ix_ref,         \* what the uninterrupted run left: [set, docs, assets]
    ix_cut          \* the tree at the interruption: [set, docs, assets, ...]

rwVars == <<rw_text, rw_map, rw_out, rw_fn>>
nmVars == <<nm_url1, nm_url2, nm_name1, nm_name2, nm_fn>>
tgVars == <<tg_html, tg_before, tg_calls, tg_changed, tg_written>>

flVars == <<fl_args, fl_tree0, fl_docs, fl_assets, fl_dirs, fl_net, fl_call,
            fl_writes, fl_warn, fl_refs, fl_subst, fl_run, fl_pc, fl_file,
            fl_txt, fl_original, fl_mapping, fl_todo, fl_changed,
            fl_any_changed, fl_stages, fl_prev_docs>>

mrVars == <<mr_args, mr_html, mr_files, mr_net, mr_call, mr_writes, mr_run,
            mr_pc, mr_todo, mr_rem_to_loc, mr_prev>>

ixVars == <<ix_phase, ix_ref, ix_cut>>

vars == <<rw_text, rw_map, rw_out, rw_fn,
          nm_url1, nm_url2, nm_name1, nm_name2, nm_fn,
          tg_html, tg_before, tg_calls, tg_changed, tg_written,
          fl_args, fl_tree0, fl_docs, fl_assets, fl_dirs, fl_net, fl_call,
          fl_writes, fl_warn, fl_refs, fl_subst, fl_run, fl_pc, fl_file,
          fl_txt, fl_original, fl_mapping, fl_todo, fl_changed,
          fl_any_changed, fl_stages, fl_prev_docs,
          mr_args, mr_html, mr_files, mr_net, mr_call, mr_writes, mr_run,
          mr_pc, mr_todo, mr_rem_to_loc, mr_prev,
          ix_phase, ix_ref, ix_cut>>

\* the parts of the state a specification leaves alone
RwIdle ==
    /\ rw_text = <<>>
    /\ rw_map = <<>>
    /\ rw_out = <<>>
    /\ rw_fn = "idle"

NmIdle ==
    /\ nm_url1 = <<>>
    /\ nm_url2 = <<>>
    /\ nm_name1 = <<>>
    /\ nm_name2 = <<>>
    /\ nm_fn = "idle"

TgIdle ==
    /\ tg_html = <<>>
    /\ tg_before = <<>>
    /\ tg_calls = 0
    /\ tg_changed = FALSE
    /\ tg_written = FALSE

FlIdle ==
    /\ fl_args = <<>>
    /\ fl_tree0 = <<>>
    /\ fl_docs = <<>>
    /\ fl_assets = {}
    /\ fl_dirs = {}
    /\ fl_net = <<>>
    /\ fl_call = <<>>
    /\ fl_writes = {}
    /\ fl_warn = {}
    /\ fl_refs = {}
    /\ fl_subst = {}
    /\ fl_run = 0
    /\ fl_pc = "idle"
    /\ fl_file = 0
    /\ fl_txt = <<>>
    /\ fl_original = <<>>
    /\ fl_mapping = <<>>
    /\ fl_todo = <<>>
    /\ fl_changed = FALSE
    /\ fl_any_changed = FALSE
    /\ fl_stages = <<>>
    /\ fl_prev_docs = <<>>

MrIdle ==
    /\ mr_args = <<>>
    /\ mr_html = <<>>
    /\ mr_files = {}
    /\ mr_net = <<>>
    /\ mr_call = <<>>
    /\ mr_writes = {}
    /\ mr_run = 0
    /\ mr_pc = "idle"
    /\ mr_todo = <<>>
    /\ mr_rem_to_loc = <<>>
    /\ mr_prev = <<>>

\* no run has been interrupted
NoRef == [set |-> FALSE, docs |-> <<>>, assets |-> {}]
NoCut == [set |-> FALSE, before |-> <<>>, docs |-> <<>>, assets |-> {},
          fetched |-> {}, open |-> {}, streaming |-> FALSE]

NoInterrupt ==
    /\ ix_phase = "whole"
    /\ ix_ref = NoRef
    /\ ix_cut = NoCut

notRw == <<nmVars, tgVars, flVars, mrVars, ixVars>>
notNm == <<rwVars, tgVars, flVars, mrVars, ixVars>>
notTg == <<rwVars, nmVars, flVars, mrVars, ixVars>>
notFl == <<rwVars, nmVars, tgVars, mrVars, ixVars>>
notMr == <<rwVars, nmVars, tgVars, flVars, ixVars>>
NotRwIdle == NmIdle /\ TgIdle /\ FlIdle /\ MrIdle /\ NoInterrupt
NotNmIdle == RwIdle /\ TgIdle /\ FlIdle /\ MrIdle /\ NoInterrupt
NotTgIdle == RwIdle /\ NmIdle /\ FlIdle /\ MrIdle /\ NoInterrupt
NotFlIdle == RwIdle /\ NmIdle /\ TgIdle /\ MrIdle /\ NoInterrupt
NotMrIdle == RwIdle /\ NmIdle /\ TgIdle /\ FlIdle /\ NoInterrupt

(***************************************************************************)
(* Sequences                                                               *)
(***************************************************************************)
Range(s) == {s[i] : i \in 1..Len(s)}

\* all sequences over S of a length in lens
SeqsOf(S, lens) == UNION {[1..n -> S] : n \in lens}

\* old occurs in text at position i
OccursAt(text, i, old) ==
    /\ i >= 1
    /\ i + Len(old) - 1 <= Len(text)
    /\ SubSeq(text, i, i + Len(old) - 1) = old

\* `old in text` of Python
Occurs(text, old) == \E i \in 1..(Len(text) + 1) : OccursAt(text, i, old)

(***************************************************************************)
(* str.replace(old, new): the leftmost occurrences of old, taken without   *)
(* overlap, are replaced by new.  The scripts call it with a non-empty old *)
(* (a URL).                                                                *)
(***************************************************************************)
RECURSIVE ReplaceFirstOnly(_, _, _)
ReplaceFirstOnly(text, old, new) ==
    IF Len(text) < Len(old) \/ Len(old) = 0 THEN text
    ELSE IF SubSeq(text, 1, Len(old)) = old
         THEN new \o SubSeq(text, Len(old) + 1, Len(text))
         ELSE <<Head(text)>> \o ReplaceFirstOnly(Tail(text), old, new)

RECURSIVE Replace(_, _, _)
Replace(text, old, new) ==
    IF Len(text) < Len(old) \/ Len(old) = 0 THEN text
    ELSE IF SubSeq(text, 1, Len(old)) = old
         THEN new \o Replace(SubSeq(text, Len(old) + 1, Len(text)), old, new)
         ELSE <<Head(text)>> \o Replace(Tail(text), old, new)

\* for old, new in items: text = text.replace(old, new)
RECURSIVE ReplaceEach(_, _)
ReplaceEach(text, items) ==
    IF items = <<>> THEN text
    ELSE ReplaceEach(Replace(text, Head(items)[1], Head(items)[2]), Tail(items))

\* framer_localize.replace_all: the keys in dict (insertion) order
replace_all(text, mapping) == ReplaceEach(text, mapping)

\* sorted(items, key=lambda x: -len(x[0])): a stable sort, longest key first
RECURSIVE InsertByLen(_, _)
InsertByLen(item, sorted) ==
    IF sorted = <<>> THEN <<item>>
    ELSE IF Len(Head(sorted)[1]) >= Len(item[1])
         THEN <<Head(sorted)>> \o InsertByLen(item, Tail(sorted))
         ELSE <<item>> \o sorted

RECURSIVE SortedByLen(_)
SortedByLen(items) ==
    IF items = <<>> THEN <<>>
    ELSE LET n == Len(items)
         IN  InsertByLen(items[n], SortedByLen(SubSeq(items, 1, n - 1)))

\* mirror_framer.rewrite_in_text
rewrite_in_text(text, mapping) == ReplaceEach(text, SortedByLen(mapping))

(***************************************************************************)
(* The rewriter on bounded inputs                                          *)
(***************************************************************************)
MaxTextLen == 4
Alphabet == {"a", "b", "c"}
KeyLens == {1, 2}
ValLens == {1}

Texts == SeqsOf(Alphabet, 0..MaxTextLen)
Keys == SeqsOf(Alphabet, KeyLens)
Vals == SeqsOf(Alphabet, ValLens)
Entries == Keys \X Vals
\* a dict of one or two entries, its keys distinct
Mappings ==
    {<<e>> : e \in Entries}
    \cup {m \in {<<e1, e2>> : e1 \in Entries, e2 \in Entries} : m[1][1] # m[2][1]}

RwInit ==
    /\ rw_text \in Texts
    /\ rw_map \in Mappings
    /\ rw_out = rw_text
    /\ rw_fn = "none"
    /\ NotRwIdle

CallReplaceAll ==
    /\ rw_fn = "none"
    /\ rw_out' = replace_all(rw_text, rw_map)
    /\ rw_fn' = "replace_all"
    /\ UNCHANGED <<rw_text, rw_map>>
    /\ UNCHANGED notRw

CallRewriteInText ==
    /\ rw_fn = "none"
    /\ rw_out' = rewrite_in_text(rw_text, rw_map)
    /\ rw_fn' = "rewrite_in_text"
    /\ UNCHANGED <<rw_text, rw_map>>
    /\ UNCHANGED notRw

RwNext == CallReplaceAll \/ CallRewriteInText

SpecRewrite == RwInit /\ [][RwNext]_vars

(***************************************************************************)
(* What the rewriter is expected to achieve                                *)
(***************************************************************************)
\* no key of the mapping occurs in text
NoKeyIn(text, mapping) ==
    \A j \in 1..Len(mapping) : ~Occurs(text, mapping[j][1])

\* no key occurs as a substring of a replacement value
KeyFreeValues(mapping) ==
    \A j \in 1..Len(mapping) : NoKeyIn(mapping[j][2], mapping)

\* k and v share text: one contains the other, or an end of one is the
\* other's beginning
Overlaps(k, v) ==
    \/ Occurs(k, v)
    \/ Occurs(v, k)
    \/ \E n \in 1..Len(k) :
          /\ n <= Len(v)
          /\ \/ SubSeq(k, Len(k) - n + 1, Len(k)) = SubSeq(v, 1, n)
             \/ SubSeq(v, Len(v) - n + 1, Len(v)) = SubSeq(k, 1, n)

\* no key shares text with a replacement value
NoKeyValueOverlap(mapping) ==
    \A i, j \in 1..Len(mapping) : ~Overlaps(mapping[i][1], mapping[j][2])

\* the occurrences of keys in text: <<position, index of the key>>
KeyOccurrences(text, mapping) ==
    {o \in (1..Len(text)) \X (1..Len(mapping)) :
        OccursAt(text, o[1], mapping[o[2]][1])}

OccurrenceSpan(mapping, o) == o[1]..(o[1] + Len(mapping[o[2]][1]) - 1)

\* no two occurrences of keys share a position of text
DisjointOccurrences(text, mapping) ==
    \A o1, o2 \in KeyOccurrences(text, mapping) :
        o1 # o2 =>
            OccurrenceSpan(mapping, o1) \cap OccurrenceSpan(mapping, o2) = {}

\* text with the key occurring at each position replaced there by that
\* key's value, everything else kept (the longest key where two start at
\* the same position)
RECURSIVE ReplacedInPlace(_, _, _)
ReplacedInPlace(text, i, mapping) ==
    IF i > Len(text) THEN <<>>
    ELSE LET here == {j \in 1..Len(mapping) : OccursAt(text, i, mapping[j][1])}
         IN  IF here = {} THEN <<text[i]>> \o ReplacedInPlace(text, i + 1, mapping)
             ELSE LET j == CHOOSE x \in here :
                              \A y \in here : Len(mapping[y][1]) <= Len(mapping[x][1])
                  IN  mapping[j][2]
                        \o ReplacedInPlace(text, i + Len(mapping[j][1]), mapping)

\* C7: for any text and any mapping none of whose keys occurs in a
\* replacement value, the rewriter's result holds no key of the mapping, and
\* every occurrence of a key in the text is replaced, where it stood, by
\* that key's own value, all other text unchanged.
C7_AsStated ==
    (rw_fn \in {"replace_all", "rewrite_in_text"} /\ KeyFreeValues(rw_map)) =>
        /\ NoKeyIn(rw_out, rw_map)
        /\ rw_out = ReplacedInPlace(rw_text, 1, rw_map)

\* What does hold of both rewriters, whatever the order of the keys: when
\* no key shares text with any replacement value the result holds no key,
\* and when moreover the occurrences of keys in the text do not overlap one
\* another each is replaced in place by its own value.
RewriterWithoutOverlap ==
    (rw_fn \in {"replace_all", "rewrite_in_text"} /\ NoKeyValueOverlap(rw_map)) =>
        /\ NoKeyIn(rw_out, rw_map)
        /\ DisjointOccurrences(rw_text, rw_map) =>
               rw_out = ReplacedInPlace(rw_text, 1, rw_map)

(***************************************************************************)
(* Keys nested in one another                                              *)
(***************************************************************************)
\* key i of the mapping is a proper part (a prefix or another substring) of
\* key j
KeyWithin(mapping, i, j) ==
    /\ i # j
    /\ Len(mapping[i][1]) < Len(mapping[j][1])
    /\ Occurs(mapping[j][1], mapping[i][1])

NestedKeys(mapping) ==
    \E i, j \in 1..Len(mapping) : KeyWithin(mapping, i, j)

\* the entries with every longer key ahead of every shorter one
RECURSIVE LongestFirst(_)
LongestFirst(mapping) ==
    IF mapping = <<>> THEN <<>>
    ELSE LET j == CHOOSE x \in 1..Len(mapping) :
                      \A y \in 1..Len(mapping) :
                          Len(mapping[y][1]) <= Len(mapping[x][1])
         IN  <<mapping[j]>>
               \o LongestFirst([k \in 1..(Len(mapping) - 1) |->
                                   IF k < j THEN mapping[k] ELSE mapping[k + 1]])

\* C11: whenever the rewriter is applied with a mapping in which one key is
\* a prefix or substring of another key, the longer key is substituted
\* before the shorter one: the result is the text with the longer key's
\* occurrences replaced first by the longer key's own value, and where the
\* text is the longer key itself and no key occurs in a value, the result
\* is that key's value, never the shorter key's value and a leftover.
C11_AsStated ==
    (rw_fn \in {"replace_all", "rewrite_in_text"} /\ NestedKeys(rw_map)) =>
        /\ rw_out = ReplaceEach(rw_text, LongestFirst(rw_map))
        /\ \A i, j \in 1..Len(rw_map) :
               (KeyWithin(rw_map, i, j) /\ KeyFreeValues(rw_map)
                    /\ rw_text = rw_map[j][1])
                   => rw_out = rw_map[j][2]

\* mirror_framer's rewriter does substitute the longer key first
LongestFirstMirror ==
    (rw_fn = "rewrite_in_text" /\ NestedKeys(rw_map)) =>
        \A i, j \in 1..Len(rw_map) :
            (KeyWithin(rw_map, i, j) /\ KeyFreeValues(rw_map)
                 /\ rw_text = rw_map[j][1])
                => rw_out = rw_map[j][2]

(***************************************************************************)
(* URLs and the filename resolvers                                         *)
(*                                                                         *)
(* A URL is <<origin>> \o rest: the origin ("https://host") is one lexeme, *)
(* the rest is the path and the query, lexeme by lexeme.  "png" stands for *)
(* an image extension of IMAGE_EXT_RE, "mjs" for the module extension,     *)
(* "format=" for that query parameter's name.                              *)
(***************************************************************************)
\* the position of the first x in s, Len(s) + 1 when there is none
FirstIndex(s, x) ==
    IF \E i \in 1..Len(s) : s[i] = x
    THEN CHOOSE i \in 1..Len(s) : s[i] = x /\ \A j \in 1..(i - 1) : s[j] # x
    ELSE Len(s) + 1

\* the position of the last x in s, 0 when there is none
LastIndex(s, x) ==
    IF \E i \in 1..Len(s) : s[i] = x
    THEN CHOOSE i \in 1..Len(s) : s[i] = x /\ \A j \in (i + 1)..Len(s) : s[j] # x
    ELSE 0

\* urlparse(url).path: what follows the origin, up to the first "?"
UrlPath(url) ==
    LET rest == Tail(url)
    IN  SubSeq(rest, 1, FirstIndex(rest, "?") - 1)

\* urlparse(url).query: what follows the first "?"
UrlQuery(url) ==
    LET rest == Tail(url)
    IN  SubSeq(rest, FirstIndex(rest, "?") + 1, Len(rest))

\* os.path.basename(path)
basename(path) == SubSeq(path, LastIndex(path, "/") + 1, Len(path))

\* os.path.splitext(base): <<name, ext>>; the extension starts at the last
\* dot, unless only dots precede it
splitext(base) ==
    LET dot == LastIndex(base, ".")
    IN  IF dot > 0 /\ \E i \in 1..(dot - 1) : base[i] # "."
        THEN <<SubSeq(base, 1, dot - 1), SubSeq(base, dot, Len(base))>>
        ELSE <<base, <<>>>>

\* what a lexeme of the hashed string leaves in the digest: hexadecimal
\* digits, which none of the patterns of the scripts tells apart
HexOf(x) ==
    CASE x = "https://a.framerusercontent.com" -> "a0"
      [] x = "https://b.framerusercontent.com" -> "b0"
      [] x = "https://x.framerusercontent.com" -> "c0"
      [] x = "/" -> "d1"
      [] x = "." -> "d2"
      [] x = "?" -> "d3"
      [] x = "a" -> "e1"
      [] x = "png" -> "e2"
      [] x = "mjs" -> "e3"
      [] x = "format=" -> "e4"
      [] x = "photo" -> "e5"
      [] x = "scale=2" -> "e6"
      [] OTHER -> "ff"

\* hashlib.sha1(s).hexdigest()[:6], kept symbolic: one digest per string,
\* different strings given different digests
short_hash(s) == <<"sha1:">> \o [k \in 1..Len(s) |-> HexOf(s[k])]

\* lexemes that begin and end with a word character (no \b between two)
WordLexemes ==
    {"a", "png", "mjs", "photo", "script", "script_main", "Bw_SFk1g",
     "scale=2", "Index", "index", "html"}
\* lexemes that begin with a word character
WordStartLexemes == WordLexemes \cup {"format="}
ImageExts == {"png"}

\* re.search(r"\.(IMAGE_EXT)\b", url): the places where it matches
DotImageExtAt(url) ==
    {i \in 1..(Len(url) - 1) :
        /\ url[i] = "."
        /\ url[i + 1] \in ImageExts
        /\ (i + 2 > Len(url)
               \/ (i + 2 <= Len(url) /\ url[i + 2] \notin WordStartLexemes))}

\* re.search(r"[?&]format=(IMAGE_EXT)", url): the places where it matches
FormatParamAt(url) ==
    {i \in 1..(Len(url) - 2) :
        /\ url[i] \in {"?", "&"}
        /\ url[i + 1] = "format="
        /\ url[i + 2] \in ImageExts}

MinOf(S) == CHOOSE x \in S : \A y \in S : x <= y

preferred_ext(url) ==
    IF DotImageExtAt(url) # {}
    THEN <<".", url[MinOf(DotImageExtAt(url)) + 1]>>
    ELSE IF FormatParamAt(url) # {}
         THEN <<".", url[MinOf(FormatParamAt(url)) + 2]>>
         ELSE <<>>

\* framer_localize.looks_image
looks_image(url) == DotImageExtAt(url) # {} \/ FormatParamAt(url) # {}

\* a whole match of FRAMER_IMG_PATH: ... "." ext, then nothing or "?" ...
MatchesImgPath(url) ==
    \E i \in 2..(Len(url) - 1) :
        /\ url[i] = "."
        /\ url[i + 1] \in ImageExts
        /\ (i + 1 = Len(url) \/ (i + 2 <= Len(url) /\ url[i + 2] = "?"))

\* a whole match of FRAMER_IMG_QFMT: ... "?" ... \bformat=ext ...
MatchesImgQfmt(url) ==
    \E i \in 2..Len(url) : \E j \in (i + 1)..(Len(url) - 1) :
        /\ url[i] = "?"
        /\ url[j] = "format="
        /\ url[j - 1] \notin WordLexemes
        /\ url[j + 1] \in ImageExts

\* a URL collect_img_urls_from_text can return (the url(...) route takes
\* whatever stands between the parentheses and looks_image)
IsImageUrl(url) == MatchesImgPath(url) \/ MatchesImgQfmt(url) \/ looks_image(url)

\* a whole match of FRAMER_MJS_RE: ... ".mjs", then nothing or "?" ...
IsModuleUrl(url) ==
    \E i \in 2..(Len(url) - 1) :
        /\ url[i] = "."
        /\ url[i + 1] = "mjs"
        /\ (i + 1 = Len(url) \/ (i + 2 <= Len(url) /\ url[i + 2] = "?"))

\* mirror_framer.ext_of: from the last dot of the last path segment
ext_of(url) ==
    LET path == UrlPath(url)
        base == SubSeq(path, LastIndex(path, "/") + 1, Len(path))
        dot  == LastIndex(base, ".")
    IN  IF dot = 0 THEN <<>> ELSE SubSeq(base, dot, Len(base))

\* mirror_framer.ASSET_EXT_ALL, as far as the lexemes go
ASSET_EXT_ALL == {<<".", "png">>, <<".", "mjs">>, <<".", "css">>}

\* framer_localize.filename_from_url
filename_from_url(url, prefer_ext) ==
    LET b0   == basename(UrlPath(url))
        base == IF b0 = <<>> THEN <<"file">> ELSE b0
        name == splitext(base)[1]
        ext0 == splitext(base)[2]
        ext  == IF ext0 = <<>> /\ prefer_ext # <<>>
                THEN (IF Head(prefer_ext) = "." THEN prefer_ext
                      ELSE <<".">> \o prefer_ext)
                ELSE ext0
    IN  IF UrlQuery(url) # <<>>
        THEN name \o <<".">> \o short_hash(url) \o ext
        ELSE name \o ext

\* the path's components as pathlib keeps them: split at "/", the empty
\* ones and the "." ones dropped
RECURSIVE PathParts(_)
PathParts(path) ==
    IF path = <<>> THEN <<>>
    ELSE LET cut  == FirstIndex(path, "/")
             part == SubSeq(path, 1, cut - 1)
             rest == PathParts(SubSeq(path, cut + 1, Len(path)))
         IN  IF part = <<>> \/ part = <<".">> THEN rest ELSE <<part>> \o rest

\* pathlib.Path(path).name
PathName(path) ==
    LET parts == PathParts(path)
    IN  IF parts = <<>> THEN <<>> ELSE parts[Len(parts)]

\* mirror_framer.hashed_name_from_url (the path holds no "?" and no "#",
\* and base is never empty after `or "asset"`)
hashed_name_from_url(url) ==
    LET base == PathName(UrlPath(url))
    IN  IF base = <<>> THEN <<"asset">> ELSE base

(***************************************************************************)
(* The resolvers on bounded inputs                                         *)
(***************************************************************************)
MaxPathLen == 3
Origins == {"https://a.framerusercontent.com", "https://b.framerusercontent.com"}
PathAlphabet == {"/", ".", "a", "png", "mjs"}
Queries == {<<>>, <<"?">>, <<"?", "a">>, <<"?", "format=", "png">>}
Urls ==
    {<<o, "/">> \o p \o q :
        o \in Origins, p \in SeqsOf(PathAlphabet, 0..MaxPathLen), q \in Queries}

\* the URLs the scripts resolve a filename for
ImageUrls == {u \in Urls : IsImageUrl(u)}
ModuleUrls == {u \in Urls : IsModuleUrl(u)}
MirrorUrls == {u \in Urls : ext_of(u) \in ASSET_EXT_ALL}

\* the origins are interchangeable: the first URL is taken at one of them
NmInit ==
    /\ nm_url1 \in {u \in ImageUrls \cup ModuleUrls \cup MirrorUrls :
                        u[1] = "https://a.framerusercontent.com"}
    /\ nm_url2 \in ImageUrls \cup ModuleUrls \cup MirrorUrls
    /\ nm_name1 = <<>>
    /\ nm_name2 = <<>>
    /\ nm_fn = "none"
    /\ NotNmIdle

\* process_file, images: filename_from_url(url, prefer_ext=preferred_ext(url))
ResolveImage ==
    /\ nm_fn = "none"
    /\ nm_url1 \in ImageUrls
    /\ nm_url2 \in ImageUrls
    /\ nm_name1' = filename_from_url(nm_url1, preferred_ext(nm_url1))
    /\ nm_name2' = filename_from_url(nm_url2, preferred_ext(nm_url2))
    /\ nm_fn' = "filename_from_url"
    /\ UNCHANGED <<nm_url1, nm_url2>>
    /\ UNCHANGED notNm

\* process_file, modules: filename_from_url(url, prefer_ext=".mjs")
ResolveModule ==
    /\ nm_fn = "none"
    /\ nm_url1 \in ModuleUrls
    /\ nm_url2 \in ModuleUrls
    /\ nm_name1' = filename_from_url(nm_url1, <<".", "mjs">>)
    /\ nm_name2' = filename_from_url(nm_url2, <<".", "mjs">>)
    /\ nm_fn' = "filename_from_url"
    /\ UNCHANGED <<nm_url1, nm_url2>>
    /\ UNCHANGED notNm

\* mirror_framer.download: filename = hashed_name_from_url(url), for the
\* URLs process hands it (an extension of ASSET_EXT_ALL)
ResolveMirror ==
    /\ nm_fn = "none"
    /\ nm_url1 \in MirrorUrls
    /\ nm_url2 \in MirrorUrls
    /\ nm_name1' = hashed_name_from_url(nm_url1)
    /\ nm_name2' = hashed_name_from_url(nm_url2)
    /\ nm_fn' = "hashed_name_from_url"
    /\ UNCHANGED <<nm_url1, nm_url2>>
    /\ UNCHANGED notNm

NmNext == ResolveImage \/ ResolveModule \/ ResolveMirror

SpecName == NmInit /\ [][NmNext]_vars

\* C8: two URLs with the same path and different query strings resolve to
\* different filenames; two URLs with the same path and no query string
\* resolve to the same filename.
C8_AsStated ==
    (nm_fn \in {"filename_from_url", "hashed_name_from_url"}
        /\ UrlPath(nm_url1) = UrlPath(nm_url2)) =>
        /\ UrlQuery(nm_url1) # UrlQuery(nm_url2) => nm_name1 # nm_name2
        /\ (UrlQuery(nm_url1) = <<>> /\ UrlQuery(nm_url2) = <<>>) =>
               nm_name1 = nm_name2

\* the part of C8 that filename_from_url satisfies
QueryDisambiguationLocalize ==
    (nm_fn = "filename_from_url" /\ UrlPath(nm_url1) = UrlPath(nm_url2)) =>
        /\ UrlQuery(nm_url1) # UrlQuery(nm_url2) => nm_name1 # nm_name2
        /\ (UrlQuery(nm_url1) = <<>> /\ UrlQuery(nm_url2) = <<>>) =>
               nm_name1 = nm_name2

\* hashed_name_from_url looks at the path alone
QueryIgnoredMirror ==
    (nm_fn = "hashed_name_from_url" /\ UrlPath(nm_url1) = UrlPath(nm_url2)) =>
        nm_name1 = nm_name2

(***************************************************************************)
(* The tag ensurer (framer_localize.ensure_framer_tags)                    *)
(*                                                                         *)
(* An opening lexeme stands for a tag up to the quote that opens its       *)
(* href/src value, a closing lexeme for the quote that ends the value and  *)
(* what follows it.                                                        *)
(***************************************************************************)
LinkOpen   == "<link rel=\"stylesheet\" href=\""
ScriptOpen == "<script src=\""
ModuleOpen == "<script type=\"module\" src=\""
AttrClose  == "\">"
ScriptClose == "\"></script>"
ClosingLexemes == {AttrClose, ScriptClose}

ASSETS_IMG_DIR == <<"assets/images/">>
ASSETS_JS_DIR  == <<"assets/js/framer/">>
FRAMER_CSS_HREF == <<"assets/css/framer.css">>
EVENTS_LOCAL == ASSETS_JS_DIR \o <<"events-script-v2.js">>
MAIN_MODULE  == ASSETS_JS_DIR \o <<"script_main", ".", "Bw_SFk1g", ".", "mjs">>

\* html holds, at position i, one of the opening lexemes, then value, then
\* a closing quote
TagAt(html, i, opening, value) ==
    /\ html[i] \in opening
    /\ OccursAt(html, i + 1, value)
    /\ i + Len(value) + 1 <= Len(html)
    /\ html[i + Len(value) + 1] \in ClosingLexemes

TagPlaces(html, opening, value) ==
    {i \in 1..Len(html) : TagAt(html, i, opening, value)}

\* CSS_TAG_RE.search(html), EVT_TAG_RE.search(html), MAIN_TAG_RE.search(html):
\* <script[^>]+src= also matches the module form of the script tag
CSS_TAG_RE(html)  == TagPlaces(html, {LinkOpen}, FRAMER_CSS_HREF) # {}
EVT_TAG_RE(html)  == TagPlaces(html, {ScriptOpen, ModuleOpen}, EVENTS_LOCAL) # {}
MAIN_TAG_RE(html) == TagPlaces(html, {ModuleOpen}, MAIN_MODULE) # {}

CssTag  == <<"  ", LinkOpen>> \o FRAMER_CSS_HREF \o <<AttrClose, "\n">>
EvtTag  == <<"  ", ScriptOpen>> \o EVENTS_LOCAL \o <<ScriptClose, "\n">>
MainTag == <<"  ", ModuleOpen>> \o MAIN_MODULE \o <<ScriptClose, "\n">>

\* the first place where one of the lexemes stands, 0 when none does
FirstOf(html, lexemes) ==
    IF \E i \in 1..Len(html) : html[i] \in lexemes
    THEN CHOOSE i \in 1..Len(html) :
             html[i] \in lexemes /\ \A j \in 1..(i - 1) : html[j] \notin lexemes
    ELSE 0

\* re.sub(r'(?i)</head>', tag + '</head>', html, count=1): the first closing
\* tag, in either case, is replaced; no closing tag, no change
SubFirst(html, lexemes, repl) ==
    LET i == FirstOf(html, lexemes)
    IN  IF i = 0 THEN html
        ELSE SubSeq(html, 1, i - 1) \o repl \o SubSeq(html, i + 1, Len(html))

HeadClose == {"</head>", "</HEAD>"}
BodyClose == {"</body>", "</BODY>"}

\* ensure_framer_tags, mutated: changed only when the text did change
ensure_framer_tags_if_changed(html) ==
    LET h1 == IF CSS_TAG_RE(html) THEN html
              ELSE SubFirst(html, HeadClose, CssTag \o <<"</head>">>)
        h2 == IF EVT_TAG_RE(h1) THEN h1
              ELSE SubFirst(h1, BodyClose, EvtTag \o <<"</body>">>)
        h3 == IF MAIN_TAG_RE(h2) THEN h2
              ELSE SubFirst(h2, BodyClose, MainTag \o <<"</body>">>)
    IN  [html |-> h3, changed |-> h3 # html]

\* ensure_framer_tags: the text to write and the value returned
ensure_framer_tags(html) ==
    LET h1 == IF CSS_TAG_RE(html) THEN html
              ELSE SubFirst(html, HeadClose, CssTag \o <<"</head>">>)
        h2 == IF EVT_TAG_RE(h1) THEN h1
              ELSE SubFirst(h1, BodyClose, EvtTag \o <<"</body>">>)
        h3 == IF MAIN_TAG_RE(h2) THEN h2
              ELSE SubFirst(h2, BodyClose, MainTag \o <<"</body>">>)
    IN  [html    |-> h3,
         changed |-> ~CSS_TAG_RE(html) \/ ~EVT_TAG_RE(h1) \/ ~MAIN_TAG_RE(h2)]

(***************************************************************************)
(* The tag ensurer on bounded inputs                                       *)
(***************************************************************************)
MaxFragments == 3
MaxEnsureCalls == 2

HtmlFragments ==
    {<<"</head>">>, <<"</HEAD>">>, <<"</body>">>, <<"<p>">>, CssTag, EvtTag, MainTag}

RECURSIVE Concat(_)
Concat(ss) == IF ss = <<>> THEN <<>> ELSE Head(ss) \o Concat(Tail(ss))

\* an HTML file of one to MaxFragments fragments
HtmlTexts == {Concat(fs) : fs \in SeqsOf(HtmlFragments, 1..MaxFragments)}

TgInit ==
    /\ tg_html \in HtmlTexts
    /\ tg_before = tg_html
    /\ tg_calls = 0
    /\ tg_changed = FALSE
    /\ tg_written = FALSE
    /\ NotTgIdle

\* one call of ensure_framer_tags on the file
EnsureTags ==
    /\ tg_calls < MaxEnsureCalls
    /\ LET r == ensure_framer_tags(tg_html)
       IN  /\ tg_html' = r.html
           /\ tg_changed' = r.changed
           /\ tg_written' = r.changed
    /\ tg_before' = tg_html
    /\ tg_calls' = tg_calls + 1
    /\ UNCHANGED notTg

TgNext == EnsureTags

SpecTags == TgInit /\ [][TgNext]_vars

\* the number of places where lexeme x stands in html
CountOf(html, x) == Cardinality({i \in 1..Len(html) : html[i] = x})

\* value stands in html as a tag exactly once more than in before
InsertedOnce(before, html, opening, value) ==
    Cardinality(TagPlaces(html, opening, value))
        = Cardinality(TagPlaces(before, opening, value)) + 1

\* C9: a call inserts each of the three tags that is absent, exactly once,
\* whatever the document (with or without </head>, </body>); a call on the
\* ensurer's own output changes nothing, returns False and writes nothing.
C9_AsStated ==
    /\ tg_calls >= 1 =>
          /\ CSS_TAG_RE(tg_html) /\ EVT_TAG_RE(tg_html) /\ MAIN_TAG_RE(tg_html)
          /\ ~CSS_TAG_RE(tg_before) =>
                 InsertedOnce(tg_before, tg_html, {LinkOpen}, FRAMER_CSS_HREF)
          /\ ~EVT_TAG_RE(tg_before) =>
                 InsertedOnce(tg_before, tg_html, {ScriptOpen, ModuleOpen}, EVENTS_LOCAL)
          /\ ~MAIN_TAG_RE(tg_before) =>
                 InsertedOnce(tg_before, tg_html, {ModuleOpen}, MAIN_MODULE)
    /\ tg_calls >= 2 =>
          /\ tg_html = tg_before
          /\ ~tg_changed
          /\ ~tg_written

\* what the ensurer does guarantee: the text is stable from the first call
\* on, and a document that has both closing tags ends up with all three
\* tags and a second call that returns False and writes nothing
EnsurerStable ==
    /\ tg_calls >= 2 => tg_html = tg_before
    /\ (tg_calls >= 2 /\ FirstOf(tg_html, HeadClose) # 0
            /\ FirstOf(tg_html, BodyClose) # 0) =>
          /\ CSS_TAG_RE(tg_html) /\ EVT_TAG_RE(tg_html) /\ MAIN_TAG_RE(tg_html)
          /\ ~tg_changed
          /\ ~tg_written

(***************************************************************************)
(* The URL extractors of framer_localize, on lexemes                       *)
(***************************************************************************)
CdnOrigin == "https://x.framerusercontent.com"
FramerOrigins == {CdnOrigin} \cup Origins
EventsOrigin == "https://events.framer.com"
ImgOpen  == "<img src=\""
HrefOpen == "<a href=\""
UrlOpen  == "url("
UrlClose == ")"

\* a quote or white space: what [^"'\s] excludes
Delimiters == ClosingLexemes \cup {"\n", "  ", " "}

\* the last position of the run of non-delimiters that starts at i
RunEnd(text, i) ==
    CHOOSE e \in i..Len(text) :
        /\ \A k \in i..e : text[k] \notin Delimiters
        /\ (e = Len(text) \/ (e < Len(text) /\ text[e + 1] \in Delimiters))

\* the places in i..e where "." and one of exts follow one another
DotExtIn(text, i, e, exts) ==
    {j \in (i + 1)..(e - 1) : text[j] = "." /\ text[j + 1] \in exts}

MaxOf(S) == CHOOSE x \in S : \A y \in S : y <= x

\* HOST [^"'\s]* \.ext (\?[^"'\s]*)? matched at an origin at i: the greedy
\* star runs to the last ".ext" of the run; a "?" right after it takes the
\* rest of the run
DotExtMatch(text, i, exts) ==
    LET e == RunEnd(text, i)
        j == MaxOf(DotExtIn(text, i, e, exts))
    IN  IF j + 2 <= e /\ text[j + 2] = "?"
        THEN SubSeq(text, i, e)
        ELSE SubSeq(text, i, j + 1)

\* FRAMER_IMG_PATH.finditer(text), FRAMER_MJS_RE.finditer(text)
DotExtMatches(text, exts) ==
    {DotExtMatch(text, i, exts) :
        i \in {k \in 1..Len(text) :
                  /\ text[k] \in FramerOrigins
                  /\ DotExtIn(text, k, RunEnd(text, k), exts) # {}}}

\* FRAMER_IMG_QFMT.finditer(text): a "?" and, after it, \bformat=ext
QfmtMatches(text) ==
    {SubSeq(text, i, RunEnd(text, i)) :
        i \in {k \in 1..Len(text) :
                  /\ text[k] \in FramerOrigins
                  /\ MatchesImgQfmt(SubSeq(text, k, RunEnd(text, k)))}}

\* framer_localize.is_framer
is_framer(url) == \E k \in 1..Len(url) : url[k] \in FramerOrigins

\* CSS_URL_RE.finditer(text): group u of url(u), u without quote or ")"
CssUrlMatches(text) ==
    {SubSeq(text, i + 1, c - 1) :
        <<i, c>> \in {p \in (1..Len(text)) \X (1..Len(text)) :
                        /\ text[p[1]] = UrlOpen
                        /\ p[2] > p[1] + 1
                        /\ text[p[2]] = UrlClose
                        /\ \A k \in (p[1] + 1)..(p[2] - 1) :
                              text[k] \notin ClosingLexemes \cup {UrlClose}}}

\* the url(...) references main and collect_img_urls_from_text keep
CssImageUrls(text) ==
    {u \in CssUrlMatches(text) : is_framer(u) /\ looks_image(u)}

\* framer_localize.collect_img_urls_from_text
collect_img_urls_from_text(text) ==
    DotExtMatches(text, ImageExts) \cup QfmtMatches(text) \cup CssImageUrls(text)

\* {m.group(0) for m in FRAMER_MJS_RE.finditer(txt)}
ModuleMatches(text) == DotExtMatches(text, {"mjs"})

\* EVENTS_SCRIPT_RE.finditer(txt): the matches in text order, one per
\* occurrence
RECURSIVE EventsMatchesFrom(_, _)
EventsMatchesFrom(text, i) ==
    IF i > Len(text) THEN <<>>
    ELSE IF /\ text[i] = EventsOrigin
            /\ i + 2 <= Len(text)
            /\ text[i + 1] = "/"
            /\ text[i + 2] = "script"
         THEN <<SubSeq(text, i, RunEnd(text, i))>>
                  \o EventsMatchesFrom(text, RunEnd(text, i) + 1)
         ELSE EventsMatchesFrom(text, i + 1)

EventsMatches(text) == EventsMatchesFrom(text, 1)

(***************************************************************************)
(* The link normalizer of framer_localize (process_file, repl_link)        *)
(***************************************************************************)
\* the lexemes that hold a double quote
QuoteLexemes ==
    ClosingLexemes \cup {LinkOpen, ScriptOpen, ModuleOpen, ImgOpen, HrefOpen}
\* the opening lexemes that end with href="
HrefOpeners == {HrefOpen, LinkOpen}
\* the lexemes that hold a "."
DotLexemes ==
    {".", "assets/css/framer.css", "events-script-v2.js", EventsOrigin}
        \cup FramerOrigins

\* str.lower on one lexeme
Lower(x) ==
    CASE x = "Index" -> "index"
      [] x = "Bw_SFk1g" -> "bw_sfk1g"
      [] OTHER -> x

LowerAll(s) == [k \in 1..Len(s) |-> Lower(s[k])]

\* str.strip(chars): the leading and trailing lexemes of chars are dropped
RECURSIVE LStrip(_, _)
LStrip(s, chars) ==
    IF s # <<>> /\ Head(s) \in chars THEN LStrip(Tail(s), chars) ELSE s

RECURSIVE RStrip(_, _)
RStrip(s, chars) ==
    IF s # <<>> /\ s[Len(s)] \in chars
    THEN RStrip(SubSeq(s, 1, Len(s) - 1), chars)
    ELSE s

Strip(s, chars) == RStrip(LStrip(s, chars), chars)

\* href.strip().strip("./").strip("/")
LinkTarget(href) ==
    Strip(Strip(Strip(href, {" ", "  ", "\n"}), {".", "/"}), {"/"})

\* the name of the HTML file at the root of the tree, and of the style sheet
HtmlFile == <<"index", ".", "html">>
CssFile  == <<"assets/css/", "site", ".", "css">>

\* build_link_map(root): stem and lower-cased stem of every root *.html
build_link_map ==
    LET stem == splitext(HtmlFile)[1]
    IN  [k \in {stem, LowerAll(stem)} |-> HtmlFile]

\* the last position of the run of lexemes without a quote that starts
\* after the opener at i (i itself when the run is empty)
ValueEnd(text, i) ==
    CHOOSE e \in i..Len(text) :
        /\ \A k \in (i + 1)..e : text[k] \notin QuoteLexemes
        /\ (e = Len(text) \/ (e < Len(text) /\ text[e + 1] \in QuoteLexemes))

\* the groups of HREF_RE at the opener at i: href up to the first "?", q
\* from it on; no match when the value is empty, is not closed by a quote,
\* or runs into a "#" before any "?"
HrefGroups(text, i) ==
    LET e     == ValueEnd(text, i)
        value == SubSeq(text, i + 1, e)
        qpos  == FirstIndex(value, "?")
        href  == IF qpos = 0 THEN value ELSE SubSeq(value, 1, qpos - 1)
        q     == IF qpos = 0 THEN <<>> ELSE SubSeq(value, qpos, Len(value))
    IN  [matched |-> /\ href # <<>>
                     /\ e < Len(text)
                     /\ text[IF e < Len(text) THEN e + 1 ELSE e] \in ClosingLexemes
                     /\ FirstIndex(href, "#") = 0,
         href |-> href, q |-> q, end |-> e]

\* repl_link: the value that replaces the matched one
repl_link(href, q, link_map) ==
    LET target == LinkTarget(href)
    IN  IF target = <<>> \/ \E k \in 1..Len(target) : target[k] \in DotLexemes
        THEN href \o q
        ELSE IF target \in DOMAIN link_map
             THEN link_map[target] \o q
             ELSE IF LowerAll(target) \in DOMAIN link_map
                  THEN link_map[LowerAll(target)] \o q
                  ELSE href \o q

\* HREF_RE.sub(repl_link, txt) from position i on
RECURSIVE HrefSub(_, _, _)
HrefSub(text, i, link_map) ==
    IF i > Len(text) THEN <<>>
    ELSE IF text[i] \in HrefOpeners /\ HrefGroups(text, i).matched
         THEN LET g == HrefGroups(text, i)
              IN  <<text[i]>> \o repl_link(g.href, g.q, link_map)
                      \o HrefSub(text, g.end + 1, link_map)
         ELSE <<text[i]>> \o HrefSub(text, i + 1, link_map)

(***************************************************************************)
(* The tree framer_localize runs on                                        *)
(***************************************************************************)
PhotoUrl       == <<CdnOrigin, "/", "photo", ".", "png">>
PhotoUrlScaled == PhotoUrl \o <<"?", "scale=2">>
MainModuleUrl  == <<CdnOrigin, "/", "script_main", ".", "Bw_SFk1g", ".", "mjs">>
EventsUrl      == <<EventsOrigin, "/", "script">>

\* the references an HTML file may hold, in the order they stand in it
RefFragments ==
    << <<ImgOpen>> \o PhotoUrl \o <<AttrClose>>,
       <<ImgOpen>> \o PhotoUrlScaled \o <<AttrClose>>,
       <<ModuleOpen>> \o MainModuleUrl \o <<ScriptClose>>,
       <<ScriptOpen>> \o EventsUrl \o <<ScriptClose>>,
       <<HrefOpen, "/", "Index", AttrClose>> >>

MaxRefs == 2
MaxRuns == 2

RECURSIVE BodyOf(_, _)
BodyOf(S, i) ==
    IF i > Len(RefFragments) THEN <<>>
    ELSE (IF i \in S THEN RefFragments[i] ELSE <<>>) \o BodyOf(S, i + 1)

HtmlDocs ==
    {<<"<html>">> \o h \o BodyOf(S, 1) \o b :
        h \in {<<>>, <<"</head>">>},
        b \in {<<>>, <<"</body>">>},
        S \in {T \in SUBSET (1..Len(RefFragments)) : Cardinality(T) <= MaxRefs}}

CssDocs ==
    {<<"a{}">>, <<"a{", UrlOpen>> \o PhotoUrl \o <<UrlClose, "}">>}

\* the local path of every asset the documents can refer to
ImageDest(url)  == ASSETS_IMG_DIR \o filename_from_url(url, preferred_ext(url))
ModuleDest(url) == ASSETS_JS_DIR \o filename_from_url(url, <<".", "mjs">>)
AllDests ==
    {ImageDest(PhotoUrl), ImageDest(PhotoUrlScaled), ModuleDest(MainModuleUrl),
     EVENTS_LOCAL}

\* the asset files and directories the tree starts with: none, the photo
\* only, or every asset already provided
Disks ==
    {[dirs |-> {}, assets |-> {}],
     [dirs |-> {ASSETS_IMG_DIR},
      assets |-> {<<ImageDest(PhotoUrl), <<"provided">>>>}],
     [dirs |-> {ASSETS_IMG_DIR, ASSETS_JS_DIR},
      assets |-> {<<p, <<"provided">>>> : p \in AllDests}]}

\* the flags of main; --recursive only widens the glob, and the tree keeps
\* its files where both globs find them
Flags ==
    [dry_run : BOOLEAN, no_download : BOOLEAN, keep_cdn_events : BOOLEAN,
     rewrite_links : BOOLEAN, include_css : BOOLEAN]

(***************************************************************************)
(* framer_localize: download, process_file and main, step by step          *)
(***************************************************************************)
\* dest.exists()
Exists(assets, dest) == \E a \in assets : a[1] = dest

\* the content of the file at dest: a set, empty when there is no file
ContentAt(assets, dest) == {a[2] : a \in {b \in assets : b[1] = dest}}

\* download, mutated: the destination is never looked at
download_without_exists_check(url, dest, dry, assets, outcome) ==
    IF dry
    THEN [ret |-> TRUE, request |-> FALSE, store |-> FALSE]
    ELSE [ret |-> outcome = "ok", request |-> TRUE, store |-> outcome = "ok"]

\* download(url, dest, dry) when the network would answer outcome: the value
\* returned, whether a request is made, whether dest is written
download(url, dest, dry, assets, outcome) ==
    IF Exists(assets, dest)
    THEN [ret |-> TRUE, request |-> FALSE, store |-> FALSE]
    ELSE IF dry
         THEN [ret |-> TRUE, request |-> FALSE, store |-> FALSE]
         ELSE [ret |-> outcome = "ok", request |-> TRUE,
               store |-> outcome = "ok"]

\* mapping[url] = local: a new key goes last, a known key keeps its place
Put(mapping, url, local) ==
    IF \E k \in 1..Len(mapping) : mapping[k][1] = url
    THEN [k \in 1..Len(mapping) |->
             IF mapping[k][1] = url THEN <<url, local>> ELSE mapping[k]]
    ELSE Append(mapping, <<url, local>>)

\* the local paths replace_all puts into text: the values of the keys that
\* occur when their turn comes
RECURSIVE Substituted(_, _)
Substituted(text, mapping) ==
    IF mapping = <<>> THEN {}
    ELSE (IF Occurs(text, Head(mapping)[1]) THEN {Head(mapping)[2]} ELSE {})
             \cup Substituted(Replace(text, Head(mapping)[1], Head(mapping)[2]),
                              Tail(mapping))

RECURSIVE SetToSeq(_)
SetToSeq(S) ==
    IF S = {} THEN <<>>
    ELSE LET x == CHOOSE y \in S : TRUE IN <<x>> \o SetToSeq(S \ {x})

Without(s, i) == SubSeq(s, 1, i - 1) \o SubSeq(s, i + 1, Len(s))

\* sorted(files): the style sheet, when --include-css asks for it, then the
\* HTML file
Files(args) == IF args.include_css THEN <<"css", "html">> ELSE <<"html">>

\* the driver's positions in a file, as main and process_file order them,
\* with link normalization moved behind the tag ensurer
StagesWithLinksLast ==
    [css  |-> <<"read", "images", "rewrite">>,
     html |-> <<"read", "images", "find_modules", "modules", "find_events",
                "events", "rewrite", "tags", "links">>]

\* the driver's positions in a file, in the order of main (CSS branch) and
\* of process_file followed by ensure_framer_tags (HTML)
StageOrder ==
    [css  |-> <<"read", "images", "rewrite">>,
     html |-> <<"read", "images", "find_modules", "modules", "find_events",
                "events", "links", "rewrite", "tags">>]

Loops == {"images", "modules", "events"}

\* the position after ph in a file of the kind; "end" after the last
After(kind, ph) ==
    LET i == FirstIndex(StageOrder[kind], ph)
    IN  IF i = Len(StageOrder[kind]) THEN "end" ELSE StageOrder[kind][i + 1]

\* the position reached on arriving at ph with todo left to visit: a loop
\* over nothing is passed at once
Enter(kind, ph, todo) ==
    IF ph \in Loops /\ todo = <<>> THEN After(kind, ph) ELSE ph

FlKind == Files(fl_args)[fl_file]

\* move to position ph of the file, to the next file, or to the end of main
Goto(ph) ==
    IF ph # "end"
    THEN fl_pc' = ph /\ fl_file' = fl_file
    ELSE IF fl_file < Len(Files(fl_args))
         THEN fl_pc' = "read" /\ fl_file' = fl_file + 1
         ELSE fl_pc' = "done" /\ fl_file' = fl_file

\* no call of download yet
NoCall ==
    [run |-> 0, url |-> <<>>, dest |-> <<>>, existed |-> FALSE, ret |-> TRUE,
     requested |-> FALSE, modified |-> FALSE]

FlInit ==
    /\ fl_args \in Flags
    /\ \E disk \in Disks :
       \E html \in HtmlDocs :
       \E css \in (IF fl_args.include_css THEN CssDocs ELSE {<<"a{}">>}) :
          /\ fl_docs = [css |-> css, html |-> html]
          /\ fl_assets = disk.assets
          /\ fl_dirs = disk.dirs
    /\ fl_tree0 = [docs |-> fl_docs, assets |-> fl_assets, dirs |-> fl_dirs]
    /\ fl_prev_docs = fl_docs
    /\ fl_net = <<>>
    /\ fl_call = NoCall
    /\ fl_writes = {}
    /\ fl_warn = {}
    /\ fl_refs = {}
    /\ fl_subst = {}
    /\ fl_run = 1
    /\ fl_pc = "read"
    /\ fl_file = 1
    /\ fl_txt = <<>>
    /\ fl_original = <<>>
    /\ fl_mapping = <<>>
    /\ fl_todo = <<>>
    /\ fl_changed = FALSE
    /\ fl_any_changed = FALSE
    /\ fl_stages = <<>>
    /\ NotFlIdle

\* the file is read and its image URLs are extracted: the head of
\* process_file, or of the CSS branch of main
ReadFile ==
    /\ fl_pc = "read"
    /\ LET txt  == fl_docs[FlKind]
           urls == IF FlKind = "css" THEN CssImageUrls(txt)
                   ELSE collect_img_urls_from_text(txt)
           todo == SetToSeq(urls)
       IN  /\ fl_txt' = txt
           /\ fl_original' = txt
           /\ fl_todo' = todo
           /\ fl_dirs' = IF urls # {} THEN fl_dirs \cup {ASSETS_IMG_DIR}
                         ELSE fl_dirs
           /\ Goto(Enter(FlKind, "images", todo))
    /\ fl_mapping' = <<>>
    /\ fl_changed' = FALSE
    /\ fl_stages' = <<"extract">>
    /\ UNCHANGED <<fl_args, fl_tree0, fl_docs, fl_assets, fl_net, fl_call,
                   fl_writes, fl_warn, fl_refs, fl_subst, fl_run,
                   fl_any_changed, fl_prev_docs, notFl>>

\* the body of the three loops: one reference is localized to dest, with a
\* warning for a missing file where the loop has one
Localize(ph, url, dest, warns, rest) ==
    /\ \E outcome \in
           (IF ~fl_args.no_download /\ ~fl_args.dry_run /\ ~Exists(fl_assets, dest)
            THEN {"ok", "error"} ELSE {"none"}) :
          IF fl_args.no_download
          THEN /\ fl_warn' = IF warns /\ ~Exists(fl_assets, dest)
                             THEN fl_warn \cup {dest} ELSE fl_warn
               /\ UNCHANGED <<fl_net, fl_assets, fl_call>>
          ELSE LET r == download(url, dest, fl_args.dry_run, fl_assets, outcome)
               IN  /\ fl_net' = IF r.request
                                THEN Append(fl_net, [run |-> fl_run, url |-> url,
                                                     outcome |-> outcome])
                                ELSE fl_net
                   /\ fl_assets' = IF r.store THEN fl_assets \cup {<<dest, url>>}
                                   ELSE fl_assets
                   /\ fl_call' = [run |-> fl_run, url |-> url, dest |-> dest,
                                  existed |-> Exists(fl_assets, dest),
                                  ret |-> r.ret,
                                  requested |-> Len(fl_net') > Len(fl_net),
                                  modified |-> ContentAt(fl_assets', dest)
                                                 # ContentAt(fl_assets, dest)]
                   /\ fl_warn' = fl_warn
    /\ fl_refs' = fl_refs \cup {dest}
    /\ fl_mapping' = Put(fl_mapping, url, dest)
    /\ fl_todo' = rest
    /\ fl_stages' = Append(fl_stages, "fetch")
    /\ Goto(Enter(FlKind, ph, rest))
    /\ UNCHANGED <<fl_args, fl_tree0, fl_docs, fl_writes, fl_subst, fl_run,
                   fl_txt, fl_original, fl_changed, fl_any_changed,
                   fl_prev_docs, notFl>>

\* for url in img_urls: the set is visited in any order
LocalizeImage ==
    /\ fl_pc = "images"
    /\ \E i \in 1..Len(fl_todo) :
          /\ Localize("images", fl_todo[i], ImageDest(fl_todo[i]), TRUE,
                      Without(fl_todo, i))
          /\ fl_dirs' = fl_dirs

\* mjs_urls = {...}; ensure_dir(ASSETS_JS_DIR) when there is one
FindModules ==
    /\ fl_pc = "find_modules"
    /\ LET urls == ModuleMatches(fl_txt)
       IN  /\ fl_todo' = SetToSeq(urls)
           /\ fl_dirs' = IF urls # {} THEN fl_dirs \cup {ASSETS_JS_DIR}
                         ELSE fl_dirs
           /\ Goto(Enter(FlKind, "modules", SetToSeq(urls)))
    /\ fl_stages' = Append(fl_stages, "extract")
    /\ UNCHANGED <<fl_args, fl_tree0, fl_docs, fl_assets, fl_net, fl_call,
                   fl_writes, fl_warn, fl_refs, fl_subst, fl_run, fl_txt,
                   fl_original, fl_mapping, fl_changed, fl_any_changed,
                   fl_prev_docs, notFl>>

\* for url in mjs_urls
LocalizeModule ==
    /\ fl_pc = "modules"
    /\ \E i \in 1..Len(fl_todo) :
          /\ Localize("modules", fl_todo[i], ModuleDest(fl_todo[i]), TRUE,
                      Without(fl_todo, i))
          /\ fl_dirs' = fl_dirs

\* if not args.keep_cdn_events: for m in EVENTS_SCRIPT_RE.finditer(txt)
FindEvents ==
    /\ fl_pc = "find_events"
    /\ LET todo == IF fl_args.keep_cdn_events THEN <<>>
                   ELSE EventsMatches(fl_txt)
       IN  /\ fl_todo' = todo
           /\ Goto(Enter(FlKind, "events", todo))
    /\ fl_stages' = IF fl_args.keep_cdn_events THEN fl_stages
                    ELSE Append(fl_stages, "extract")
    /\ UNCHANGED <<fl_args, fl_tree0, fl_docs, fl_assets, fl_dirs, fl_net,
                   fl_call, fl_writes, fl_warn, fl_refs, fl_subst, fl_run,
                   fl_txt, fl_original, fl_mapping, fl_changed,
                   fl_any_changed, fl_prev_docs, notFl>>

\* the body of the events loop: the matches in text order, no warning
LocalizeEvents ==
    /\ fl_pc = "events"
    /\ fl_todo # <<>>
    /\ Localize("events", Head(fl_todo), EVENTS_LOCAL, FALSE, Tail(fl_todo))
    /\ fl_dirs' = fl_dirs \cup {ASSETS_JS_DIR}

\* the optional link rewrite of process_file
RewriteLinks ==
    /\ fl_pc = "links"
    /\ LET txt2 == IF fl_args.rewrite_links
                   THEN HrefSub(fl_txt, 1, build_link_map) ELSE fl_txt
           taken == fl_args.rewrite_links /\ ~fl_args.dry_run /\ txt2 # fl_txt
       IN  /\ fl_txt' = IF taken THEN txt2 ELSE fl_txt
           /\ fl_changed' = taken
    /\ fl_stages' = IF fl_args.rewrite_links THEN Append(fl_stages, "links")
                    ELSE fl_stages
    /\ Goto(After(FlKind, "links"))
    /\ UNCHANGED <<fl_args, fl_tree0, fl_docs, fl_assets, fl_dirs, fl_net,
                   fl_call, fl_writes, fl_warn, fl_refs, fl_subst, fl_run,
                   fl_original, fl_mapping, fl_todo, fl_any_changed,
                   fl_prev_docs, notFl>>

\* "apply asset rewrites" of process_file, and the same step of the CSS
\* branch of main: what is written, if anything, and the changed flag
Rewritten ==
    LET new_txt == replace_all(fl_txt, fl_mapping)
    IN  IF FlKind = "css"
        THEN IF fl_mapping # <<>> /\ ~fl_args.dry_run /\ new_txt # fl_original
             THEN [write |-> TRUE, text |-> new_txt, changed |-> TRUE]
             ELSE [write |-> FALSE, text |-> fl_txt, changed |-> FALSE]
        ELSE IF fl_mapping # <<>>
             THEN IF ~fl_args.dry_run /\ (new_txt # fl_original \/ fl_changed)
                  THEN [write |-> TRUE, text |-> new_txt, changed |-> TRUE]
                  ELSE [write |-> FALSE, text |-> fl_txt, changed |-> fl_changed]
             ELSE IF fl_changed /\ ~fl_args.dry_run
                  THEN [write |-> TRUE, text |-> fl_txt, changed |-> fl_changed]
                  ELSE [write |-> FALSE, text |-> fl_txt, changed |-> fl_changed]

ApplyRewrites ==
    /\ fl_pc = "rewrite"
    /\ LET r == Rewritten
       IN  /\ fl_docs' = IF r.write THEN [fl_docs EXCEPT ![FlKind] = r.text]
                         ELSE fl_docs
           /\ fl_writes' = IF r.write
                           THEN fl_writes \cup
                                    {[run |-> fl_run, file |-> FlKind,
                                      same |-> r.text = fl_docs[FlKind]]}
                           ELSE fl_writes
           /\ fl_subst' = IF r.write /\ fl_mapping # <<>>
                          THEN fl_subst \cup Substituted(fl_txt, fl_mapping)
                          ELSE fl_subst
           /\ fl_changed' = IF FlKind = "css" THEN fl_changed ELSE r.changed
           /\ fl_any_changed' = (fl_any_changed \/ r.changed)
    /\ fl_stages' = Append(fl_stages, "rewrite")
    /\ Goto(After(FlKind, "rewrite"))
    /\ UNCHANGED <<fl_args, fl_tree0, fl_assets, fl_dirs, fl_net, fl_call,
                   fl_warn, fl_refs, fl_run, fl_txt, fl_original, fl_mapping,
                   fl_todo, fl_prev_docs, notFl>>

\* main: ensure_framer_tags(f) on an HTML file, only when not dry-run
EnsureFileTags ==
    /\ fl_pc = "tags"
    /\ LET r == ensure_framer_tags(fl_docs.html)
           taken == ~fl_args.dry_run /\ r.changed
       IN  /\ fl_docs' = IF taken THEN [fl_docs EXCEPT !.html = r.html]
                         ELSE fl_docs
           /\ fl_writes' = IF taken
                           THEN fl_writes \cup
                                    {[run |-> fl_run, file |-> "html",
                                      same |-> r.html = fl_docs.html]}
                           ELSE fl_writes
           /\ fl_any_changed' = (fl_any_changed \/ taken)
    /\ fl_stages' = IF fl_args.dry_run THEN fl_stages
                    ELSE Append(fl_stages, "tags")
    /\ Goto(After(FlKind, "tags"))
    /\ UNCHANGED <<fl_args, fl_tree0, fl_assets, fl_dirs, fl_net, fl_call,
                   fl_warn, fl_refs, fl_subst, fl_run, fl_txt, fl_original,
                   fl_mapping, fl_todo, fl_changed, fl_prev_docs, notFl>>

\* the script is run again, with the same flags, on the tree as it is now
RunAgain ==
    /\ fl_pc = "done"
    /\ fl_run < MaxRuns
    /\ fl_run' = fl_run + 1
    /\ fl_prev_docs' = fl_docs
    /\ fl_pc' = "read"
    /\ fl_file' = 1
    /\ fl_any_changed' = FALSE
    /\ fl_changed' = FALSE
    /\ fl_stages' = <<>>
    /\ fl_txt' = <<>>
    /\ fl_original' = <<>>
    /\ fl_mapping' = <<>>
    /\ fl_todo' = <<>>
    /\ UNCHANGED <<fl_args, fl_tree0, fl_docs, fl_assets, fl_dirs, fl_net,
                   fl_call, fl_writes, fl_warn, fl_refs, fl_subst, notFl>>

FlNext ==
    \/ ReadFile
    \/ LocalizeImage
    \/ FindModules
    \/ LocalizeModule
    \/ FindEvents
    \/ LocalizeEvents
    \/ RewriteLinks
    \/ ApplyRewrites
    \/ EnsureFileTags
    \/ RunAgain

SpecLocalize == FlInit /\ [][FlNext]_vars

(***************************************************************************)
(* mirror_framer: the tree, the extractors, the rewriters and download     *)
(***************************************************************************)
OtherOrigin == "https://cdn.example.com"
SheetUrl == <<CdnOrigin, "/", "site", ".", "css">>
OtherUrl == <<OtherOrigin, "/", "pic", ".", "png">>

\* mirror_framer.is_http_url: a scheme and a host
is_http_url(u) ==
    u # <<>> /\ u[1] \in FramerOrigins \cup {EventsOrigin, OtherOrigin}

\* mirror_framer.host_looks_like_framer: one of FRAMER_HOSTS in the host
host_looks_like_framer(u) ==
    u # <<>> /\ u[1] \in FramerOrigins \cup {EventsOrigin}

\* sorted(urls): the URLs of the tree in string order
UrlOrder == <<OtherUrl, PhotoUrl, PhotoUrlScaled, MainModuleUrl, SheetUrl>>
InSet(S, u) == u \in S
Sorted(S) == SelectSeq(UrlOrder, LAMBDA u : InSet(S, u))

\* the tags gather_html_asset_urls reads a src or href from
MirrorOpeners == {ImgOpen, ScriptOpen, ModuleOpen, LinkOpen}

\* mirror_framer.gather_html_asset_urls: the attribute values and the
\* url(...) of inline styles
gather_html_asset_urls(text) ==
    {SubSeq(text, i + 1, ValueEnd(text, i)) :
        i \in {k \in 1..Len(text) :
                  text[k] \in MirrorOpeners /\ ValueEnd(text, k) > k}}
        \cup CssUrlMatches(text)

\* the URLs process keeps: absolute, with a known asset extension, and of
\* a Framer host when --only-framer-hosts asks for it
Kept(urls, only_framer) ==
    {u \in urls : /\ is_http_url(u)
                  /\ ext_of(u) \in ASSET_EXT_ALL
                  /\ (only_framer => host_looks_like_framer(u))}

DIR_IMG   == ASSETS_IMG_DIR
DIR_CSS   == <<"assets/css/">>
DIR_JS_FR == ASSETS_JS_DIR

\* mirror_framer.choose_local_dir (an .mjs always goes to js/framer)
choose_local_dir(url) ==
    CASE ext_of(url) = <<".", "css">> -> DIR_CSS
      [] ext_of(url) = <<".", "mjs">> -> DIR_JS_FR
      [] OTHER -> DIR_IMG

\* ensure_unique_path(choose_local_dir(url), hashed_name_from_url(url)): the
\* candidate, whether it exists or not
ensure_unique_path(url) == choose_local_dir(url) \o hashed_name_from_url(url)

\* what the server sends for a URL: a style sheet that refers to the photo,
\* a module whose text holds the photo's URL, or bytes
RemoteBody(url) ==
    CASE url = SheetUrl -> <<"a{", UrlOpen>> \o PhotoUrl \o <<UrlClose, "}">>
      [] url = MainModuleUrl -> <<"// ", " ">> \o PhotoUrl \o <<"\n">>
      [] OTHER -> <<"bytes">>

\* what iter_content had delivered when the connection broke
Truncated(body) == SubSeq(body, 1, Len(body) \div 2)

\* mirror_framer.download when the network would answer outcome: the path
\* returned (<<>> for None), whether a request is made, the files afterwards
mirror_download(url, only_framer, files, outcome) ==
    IF (only_framer /\ is_http_url(url) /\ ~host_looks_like_framer(url))
          \/ ~is_http_url(url)
    THEN [ret |-> <<>>, request |-> FALSE, files |-> files]
    ELSE LET dst == ensure_unique_path(url)
         IN  IF Exists(files, dst)
             THEN [ret |-> dst, request |-> FALSE, files |-> files]
             ELSE CASE outcome = "ok" ->
                         [ret |-> dst, request |-> TRUE,
                          files |-> files \cup {<<dst, RemoteBody(url)>>}]
                    [] outcome = "body_error" ->
                         [ret |-> <<>>, request |-> TRUE,
                          files |-> files \cup {<<dst, Truncated(RemoteBody(url))>>}]
                    [] OTHER ->
                         [ret |-> <<>>, request |-> TRUE, files |-> files]

\* mapping.get(raw) or raw
Lookup(mapping, raw) ==
    IF \E k \in 1..Len(mapping) : mapping[k][1] = raw
    THEN mapping[CHOOSE k \in 1..Len(mapping) : mapping[k][1] = raw][2]
    ELSE raw

\* the first ")" after i, 0 when there is none
CloseAfter(text, i) ==
    IF \E c \in (i + 1)..Len(text) : text[c] = UrlClose
    THEN CHOOSE c \in (i + 1)..Len(text) :
             text[c] = UrlClose /\ \A k \in (i + 1)..(c - 1) : text[k] # UrlClose
    ELSE 0

\* mirror_framer.rewrite_css_text from position i on: every url(raw) becomes
\* url(mapping.get(raw) or raw)
RECURSIVE CssSub(_, _, _)
CssSub(text, i, mapping) ==
    IF i > Len(text) THEN <<>>
    ELSE IF text[i] = UrlOpen /\ CloseAfter(text, i) > i + 1
         THEN LET c == CloseAfter(text, i)
              IN  <<UrlOpen>> \o Lookup(mapping, SubSeq(text, i + 1, c - 1))
                      \o <<UrlClose>> \o CssSub(text, c + 1, mapping)
         ELSE <<text[i]>> \o CssSub(text, i + 1, mapping)

rewrite_css_text(text, mapping) == CssSub(text, 1, mapping)

\* the extensions of URL_IN_TEXT_RE (".mjs" is not one of them)
JsScanExts == {"png", "css"}

\* mirror_framer.scan_js_for_urls: from an origin to the first ".ext"
scan_js_for_urls(text) ==
    {SubSeq(text, i, MinOf(DotExtIn(text, i, RunEnd(text, i), JsScanExts)) + 1) :
        i \in {k \in 1..Len(text) :
                  /\ is_http_url(<<text[k]>>)
                  /\ DotExtIn(text, k, RunEnd(text, k), JsScanExts) # {}}}

\* the files process treats as style sheets and as scripts: the downloaded
\* paths with that suffix
PathsWithExt(rem_to_loc, exts) ==
    {rem_to_loc[k][2] : k \in {j \in 1..Len(rem_to_loc) :
                                  ext_of(rem_to_loc[j][2]) \in exts}}

\* the text of the file at path (empty when it holds nothing)
TextAt(files, path) ==
    IF Exists(files, path)
    THEN CHOOSE c \in ContentAt(files, path) : TRUE
    ELSE <<>>

\* write_text(path, f(read_text(path))) for every path of paths
RewriteFiles(files, paths, mapping, css) ==
    {IF a[1] \in paths
     THEN <<a[1], IF css THEN rewrite_css_text(a[2], mapping)
                  ELSE rewrite_in_text(a[2], mapping)>>
     ELSE a : a \in files}

\* the references the HTML file may hold
MirrorFragments ==
    << <<ImgOpen>> \o OtherUrl \o <<AttrClose>>,
       <<ImgOpen>> \o PhotoUrl \o <<AttrClose>>,
       <<ImgOpen>> \o PhotoUrlScaled \o <<AttrClose>>,
       <<ModuleOpen>> \o MainModuleUrl \o <<ScriptClose>>,
       <<LinkOpen>> \o SheetUrl \o <<AttrClose>> >>

RECURSIVE MirrorBody(_, _)
MirrorBody(S, i) ==
    IF i > Len(MirrorFragments) THEN <<>>
    ELSE (IF i \in S THEN MirrorFragments[i] ELSE <<>>) \o MirrorBody(S, i + 1)

MirrorDocs ==
    {<<"<html>">> \o MirrorBody(S, 1) :
        S \in {T \in SUBSET (1..Len(MirrorFragments)) : Cardinality(T) <= MaxRefs}}

(***************************************************************************)
(* mirror_framer: process, step by step                                    *)
(***************************************************************************)
Waves == {"wave1", "nested", "discovered"}

MrInit ==
    /\ mr_args \in [only_framer_hosts : BOOLEAN]
    /\ mr_html \in MirrorDocs
    /\ mr_files \in {{}, {<<ensure_unique_path(PhotoUrl), <<"provided">>>>}}
    /\ mr_net = <<>>
    /\ mr_call = NoCall
    /\ mr_writes = {}
    /\ mr_run = 1
    /\ mr_pc = "collect"
    /\ mr_todo = <<>>
    /\ mr_rem_to_loc = <<>>
    /\ mr_prev = [html |-> mr_html, files |-> mr_files]
    /\ NotMrIdle

\* steps 1 and 2 of process: the asset URLs of the HTML file
Collect ==
    /\ mr_pc = "collect"
    /\ mr_todo' = Sorted(Kept(gather_html_asset_urls(mr_html),
                              mr_args.only_framer_hosts))
    /\ mr_rem_to_loc' = <<>>
    /\ mr_pc' = "wave1"
    /\ UNCHANGED <<mr_args, mr_html, mr_files, mr_net, mr_call, mr_writes,
                   mr_run, mr_prev, notMr>>

\* one turn of a download loop: p = download(u, ...); if p: rem_to_loc[u] = p
DownloadNext ==
    /\ mr_pc \in Waves
    /\ mr_todo # <<>>
    /\ LET url == Head(mr_todo)
           dst == ensure_unique_path(url)
       IN  \E outcome \in
               (IF Kept({url}, mr_args.only_framer_hosts) # {}
                     /\ ~Exists(mr_files, dst)
                THEN {"ok", "error", "body_error"} ELSE {"none"}) :
              LET r == mirror_download(url, mr_args.only_framer_hosts,
                                       mr_files, outcome)
              IN  /\ mr_files' = r.files
                  /\ mr_net' = IF r.request
                               THEN Append(mr_net, [run |-> mr_run, url |-> url,
                                                    outcome |-> outcome])
                               ELSE mr_net
                  /\ mr_call' = [run |-> mr_run, url |-> url, dest |-> dst,
                                 existed |-> Exists(mr_files, dst),
                                 ret |-> r.ret # <<>>,
                                 requested |-> Len(mr_net') > Len(mr_net),
                                 modified |-> ContentAt(mr_files', dst)
                                                # ContentAt(mr_files, dst)]
                  /\ mr_rem_to_loc' = IF r.ret # <<>>
                                      THEN Put(mr_rem_to_loc, url, r.ret)
                                      ELSE mr_rem_to_loc
    /\ mr_todo' = Tail(mr_todo)
    /\ UNCHANGED <<mr_args, mr_html, mr_writes, mr_run, mr_pc, mr_prev, notMr>>

\* step 4, first half: the URLs nested in the downloaded style sheets
ScanCss ==
    /\ mr_pc = "wave1"
    /\ mr_todo = <<>>
    /\ LET css_files == PathsWithExt(mr_rem_to_loc, {<<".", "css">>})
           nested == UNION {CssUrlMatches(TextAt(mr_files, f)) : f \in css_files}
       IN  mr_todo' = Sorted(Kept(nested, mr_args.only_framer_hosts))
    /\ mr_pc' = "nested"
    /\ UNCHANGED <<mr_args, mr_html, mr_files, mr_net, mr_call, mr_writes,
                   mr_run, mr_rem_to_loc, mr_prev, notMr>>

\* the files of paths are rewritten and written, changed or not
WriteAssets(paths, css) ==
    /\ mr_files' = RewriteFiles(mr_files, paths, mr_rem_to_loc, css)
    /\ mr_writes' = mr_writes \cup
           {[run |-> mr_run, file |-> f,
             same |-> ContentAt(mr_files', f) = ContentAt(mr_files, f)] :
                f \in paths}

\* step 4, second half: write_text(css, rewrite_css_text(...)) for each
RewriteCss ==
    /\ mr_pc = "nested"
    /\ mr_todo = <<>>
    /\ WriteAssets(PathsWithExt(mr_rem_to_loc, {<<".", "css">>}), TRUE)
    /\ mr_pc' = "js_scan"
    /\ UNCHANGED <<mr_args, mr_html, mr_net, mr_call, mr_run, mr_todo,
                   mr_rem_to_loc, mr_prev, notMr>>

\* step 5, first half: the URLs found in the downloaded scripts
ScanJs ==
    /\ mr_pc = "js_scan"
    /\ LET js_files == PathsWithExt(mr_rem_to_loc, {<<".", "mjs">>})
           found == UNION {scan_js_for_urls(TextAt(mr_files, f)) : f \in js_files}
       IN  mr_todo' = Sorted({u \in found :
                                 /\ mr_args.only_framer_hosts
                                       => host_looks_like_framer(u)
                                 /\ ext_of(u) \in ASSET_EXT_ALL})
    /\ mr_pc' = "discovered"
    /\ UNCHANGED <<mr_args, mr_html, mr_files, mr_net, mr_call, mr_writes,
                   mr_run, mr_rem_to_loc, mr_prev, notMr>>

\* step 5, second half: write_text(js, rewrite_in_text(...)) for each
RewriteJs ==
    /\ mr_pc = "discovered"
    /\ mr_todo = <<>>
    /\ WriteAssets(PathsWithExt(mr_rem_to_loc, {<<".", "mjs">>}), FALSE)
    /\ mr_pc' = "html"
    /\ UNCHANGED <<mr_args, mr_html, mr_net, mr_call, mr_run, mr_todo,
                   mr_rem_to_loc, mr_prev, notMr>>

\* step 6: the HTML file is rewritten and written, changed or not
RewriteHtml ==
    /\ mr_pc = "html"
    /\ mr_html' = rewrite_css_text(rewrite_in_text(mr_html, mr_rem_to_loc),
                                   mr_rem_to_loc)
    /\ mr_writes' = mr_writes \cup
           {[run |-> mr_run, file |-> HtmlFile, same |-> mr_html' = mr_html]}
    /\ mr_pc' = "done"
    /\ UNCHANGED <<mr_args, mr_files, mr_net, mr_call, mr_run, mr_todo,
                   mr_rem_to_loc, mr_prev, notMr>>

\* the script is run again on the tree as it is now
MirrorAgain ==
    /\ mr_pc = "done"
    /\ mr_run < MaxRuns
    /\ mr_run' = mr_run + 1
    /\ mr_prev' = [html |-> mr_html, files |-> mr_files]
    /\ mr_pc' = "collect"
    /\ mr_rem_to_loc' = <<>>
    /\ UNCHANGED <<mr_args, mr_html, mr_files, mr_net, mr_call, mr_writes,
                   mr_todo, notMr>>

MrNext ==
    \/ Collect
    \/ DownloadNext
    \/ ScanCss
    \/ RewriteCss
    \/ ScanJs
    \/ RewriteJs
    \/ RewriteHtml
    \/ MirrorAgain

SpecMirror == MrInit /\ [][MrNext]_vars

(***************************************************************************)
(* Either script run on its tree                                           *)
(***************************************************************************)
Init == (FlInit /\ mr_pc = "idle") \/ (MrInit /\ fl_pc = "idle")

Next == FlNext \/ MrNext

Spec == Init /\ [][Next]_vars

(***************************************************************************)
(* A run that is interrupted and then run again                            *)
(*                                                                         *)
(* The script is first left to finish on the tree, and what it leaves is   *)
(* kept in ix_ref.  The tree is then put back as it was, the script is     *)
(* started on it again, killed at some position, and run once more to its  *)
(* end.  The server answers every request, so that what a run leaves       *)
(* depends on the tree alone.  Between two statements an interruption      *)
(* leaves the disk as it is; inside mirror_framer.download it can arrive   *)
(* while the chunks of the response are being written into the opened      *)
(* destination file.                                                       *)
(***************************************************************************)
Answered(net) ==
    \A k \in 1..Len(net) : net[k].outcome \in {"ok", "interrupted"}

\* the URLs the run has fetched
Fetched(net) == {net[k].url : k \in {j \in 1..Len(net) : net[j].outcome = "ok"}}

\* main is entered
FlStart(run) ==
    /\ fl_run' = run
    /\ fl_pc' = "read"
    /\ fl_file' = 1
    /\ fl_any_changed' = FALSE
    /\ fl_changed' = FALSE
    /\ fl_stages' = <<>>
    /\ fl_txt' = <<>>
    /\ fl_original' = <<>>
    /\ fl_mapping' = <<>>
    /\ fl_todo' = <<>>

FlStep ==
    \/ ReadFile
    \/ LocalizeImage
    \/ FindModules
    \/ LocalizeModule
    \/ FindEvents
    \/ LocalizeEvents
    \/ RewriteLinks
    \/ ApplyRewrites
    \/ EnsureFileTags

FlStepAnswered == FlStep /\ Answered(fl_net')

\* the uninterrupted run is over: what it left is kept, and the script is
\* started on the original tree
FlStartOver ==
    /\ ix_phase = "whole"
    /\ fl_pc = "done"
    /\ ix_ref' = [set |-> TRUE, docs |-> fl_docs, assets |-> fl_assets]
    /\ ix_phase' = "again"
    /\ fl_docs' = fl_tree0.docs
    /\ fl_assets' = fl_tree0.assets
    /\ fl_dirs' = fl_tree0.dirs
    /\ fl_prev_docs' = fl_tree0.docs
    /\ fl_net' = <<>>
    /\ fl_call' = NoCall
    /\ fl_writes' = {}
    /\ fl_warn' = {}
    /\ fl_refs' = {}
    /\ fl_subst' = {}
    /\ FlStart(1)
    /\ UNCHANGED <<fl_args, fl_tree0, ix_cut, rwVars, nmVars, tgVars, mrVars>>

\* the run is killed between two statements, and the script is run again
FlInterrupt ==
    /\ ix_phase = "again"
    /\ fl_pc \notin {"done", "idle"}
    /\ ix_cut' = [set |-> TRUE, before |-> fl_tree0.docs, docs |-> fl_docs,
                  assets |-> fl_assets, fetched |-> Fetched(fl_net),
                  open |-> {u \in Fetched(fl_net) :
                               \E k \in DOMAIN fl_docs : Occurs(fl_docs[k], u)},
                  streaming |-> FALSE]
    /\ ix_phase' = "resumed"
    /\ fl_prev_docs' = fl_docs
    /\ FlStart(fl_run + 1)
    /\ UNCHANGED <<fl_args, fl_tree0, fl_docs, fl_assets, fl_dirs, fl_net,
                   fl_call, fl_writes, fl_warn, fl_refs, fl_subst, ix_ref,
                   rwVars, nmVars, tgVars, mrVars>>

\* process is entered
MrStart(run) ==
    /\ mr_run' = run
    /\ mr_pc' = "collect"
    /\ mr_todo' = <<>>
    /\ mr_rem_to_loc' = <<>>

MrStep ==
    \/ Collect
    \/ DownloadNext
    \/ ScanCss
    \/ RewriteCss
    \/ ScanJs
    \/ RewriteJs
    \/ RewriteHtml

MrStepAnswered == MrStep /\ Answered(mr_net')

MrStartOver ==
    /\ ix_phase = "whole"
    /\ mr_pc = "done"
    /\ ix_ref' = [set |-> TRUE, docs |-> mr_html, assets |-> mr_files]
    /\ ix_phase' = "again"
    /\ mr_html' = mr_prev.html
    /\ mr_files' = mr_prev.files
    /\ mr_net' = <<>>
    /\ mr_call' = NoCall
    /\ mr_writes' = {}
    /\ MrStart(1)
    /\ UNCHANGED <<mr_args, mr_prev, ix_cut, rwVars, nmVars, tgVars, flVars>>

\* the URLs of fetched that a text on disk still holds
StillReferenced(fetched, html, files) ==
    {u \in fetched : Occurs(html, u) \/ \E a \in files : Occurs(a[2], u)}

\* the run is killed, leaving the disk as files, and the script is run again
MrKilled(files, net, streaming) ==
    /\ ix_phase = "again"
    /\ ix_cut' = [set |-> TRUE, before |-> mr_prev.html, docs |-> mr_html,
                  assets |-> files, fetched |-> Fetched(mr_net),
                  open |-> StillReferenced(Fetched(mr_net), mr_html, files),
                  streaming |-> streaming]
    /\ ix_phase' = "resumed"
    /\ mr_files' = files
    /\ mr_net' = net
    /\ mr_prev' = [html |-> mr_html, files |-> files]
    /\ MrStart(mr_run + 1)
    /\ UNCHANGED <<mr_args, mr_html, mr_call, mr_writes, ix_ref,
                   rwVars, nmVars, tgVars, flVars>>

\* killed between two statements
MrInterrupt ==
    /\ mr_pc \notin {"done", "idle"}
    /\ MrKilled(mr_files, mr_net, FALSE)

\* killed inside download, in the loop that writes the chunks of the
\* response into the opened destination
MrInterruptStreaming ==
    /\ mr_pc \in Waves
    /\ mr_todo # <<>>
    /\ LET url == Head(mr_todo)
       IN  /\ Kept({url}, mr_args.only_framer_hosts) # {}
           /\ ~Exists(mr_files, ensure_unique_path(url))
           /\ MrKilled(mirror_download(url, mr_args.only_framer_hosts,
                                       mr_files, "body_error").files,
                       Append(mr_net, [run |-> mr_run, url |-> url,
                                       outcome |-> "interrupted"]),
                       TRUE)

IxNext ==
    \/ FlStepAnswered
    \/ FlStartOver
    \/ FlInterrupt
    \/ MrStepAnswered
    \/ MrStartOver
    \/ MrInterrupt
    \/ MrInterruptStreaming

SpecInterrupt == Init /\ [][IxNext]_vars

(***************************************************************************)
(* Properties of the two drivers                                           *)
(***************************************************************************)
\* a call that found its destination on disk returned success, made no
\* request and left the destination as it was
ExistingIsKept(call) ==
    call.existed => (call.ret /\ ~call.requested /\ ~call.modified)

\* no URL is requested in a run after one in which it was stored
StoredNotRefetched(net) ==
    \A i \in 1..Len(net) : \A j \in 1..Len(net) :
        (net[i].outcome = "ok" /\ net[i].run < net[j].run)
            => net[j].url # net[i].url

\* C1: every call of download (of either script) whose destination file
\* already exists reports success, makes no network request and does not
\* modify the destination; and in a later run over the same tree no URL
\* whose file an earlier run stored is requested again.
C1_DownloadIdempotent ==
    /\ fl_pc # "idle" => (ExistingIsKept(fl_call) /\ StoredNotRefetched(fl_net))
    /\ mr_pc # "idle" => (ExistingIsKept(mr_call) /\ StoredNotRefetched(mr_net))

\* C1's case: in a second run of mirror_framer, which makes requests again,
\* download is called for a URL whose file the first run stored
C1_Witness ==
    /\ mr_pc # "idle"
    /\ mr_run = 2
    /\ mr_call.run = 2
    /\ mr_call.existed
    /\ \E i \in 1..Len(mr_net) :
          mr_net[i].run = 1 /\ mr_net[i].outcome = "ok"
              /\ mr_net[i].url = mr_call.url
    /\ \E j \in 1..Len(mr_net) : mr_net[j].run = 2

\* C2: with --dry-run, whatever the tree and the other flags, a run writes
\* nothing (no document, no asset, no directory), makes no network request,
\* and every call of download returns success.
C2_AsStated ==
    fl_args.dry_run =>
        /\ fl_docs = fl_tree0.docs
        /\ fl_assets = fl_tree0.assets
        /\ fl_dirs = fl_tree0.dirs
        /\ fl_writes = {}
        /\ fl_net = <<>>
        /\ fl_call.ret

\* C3: with --no-download no network request is made, and every discovered
\* reference (image, module, events script) whose local file is absent is
\* named in a missing-file warning.
C3_AsStated ==
    fl_args.no_download =>
        /\ fl_net = <<>>
        /\ \A dest \in fl_refs : ~Exists(fl_assets, dest) => dest \in fl_warn

\* C4: when a fetch fails (HTTP status, network error, or an error part-way
\* through the body), download reports failure and no file, complete or
\* partial, is at the destination afterwards.
C4_AsStated ==
    (mr_call.requested /\ ~mr_call.ret) => ~Exists(mr_files, mr_call.dest)

\* C5: in a run that is neither --dry-run nor --no-download, every local
\* path substituted for a remote URL in a written document is the path of a
\* file on disk.
C5_AsStated ==
    (~fl_args.dry_run /\ ~fl_args.no_download) =>
        \A dest \in fl_subst : Exists(fl_assets, dest)

\* C6: a second run on the tree the first run left makes no network
\* request, leaves every document's text as the first run left it, and
\* writes no file.
C6_AsStated ==
    fl_run >= 2 =>
        /\ \A k \in 1..Len(fl_net) : fl_net[k].run = 1
        /\ fl_docs = fl_prev_docs
        /\ \A w \in fl_writes : w.run = 1

\* the stages in the order the driver performs them: extraction and fetch
\* (kind by kind), link normalization, asset rewrite, tag ensuring
RankInCode ==
    [extract |-> 1, fetch |-> 1, links |-> 2, rewrite |-> 3, tags |-> 4]

NonDecreasing(stages, rank) ==
    \A i \in 1..Len(stages) : \A j \in 1..Len(stages) :
        i < j => rank[stages[i]] <= rank[stages[j]]

RequestedOncePerRun(net) ==
    \A i, j \in 1..Len(net) :
        (i < j /\ net[i].run = net[j].run) => net[i].url # net[j].url

\* C12: within one run a network fetch is attempted at most once for any
\* URL: after a fetch of a URL has failed, no later step of the same run
\* (another file that refers to the URL, the nested or the discovered wave)
\* requests that URL again.
C12_AsStated ==
    /\ fl_pc # "idle" => RequestedOncePerRun(fl_net)
    /\ mr_pc # "idle" => RequestedOncePerRun(mr_net)

\* What the code does guarantee: a URL is requested again in a run only
\* after every earlier request for it in that run failed and left no file.
RefetchOnlyAfterFailure(net) ==
    \A i, j \in 1..Len(net) :
        (i < j /\ net[i].run = net[j].run /\ net[i].url = net[j].url)
            => net[i].outcome = "error"

RefetchedOnlyAfterFailure ==
    /\ fl_pc # "idle" => RefetchOnlyAfterFailure(fl_net)
    /\ mr_pc # "idle" => RefetchOnlyAfterFailure(mr_net)

\* every write recorded put a text on disk that differs from the text the
\* file held before the step
OnlyChangesWritten(writes) == \A w \in writes : ~w.same

\* C13: a document (HTML, CSS, or a downloaded script or style sheet) is
\* written by a run only if its new content differs from its content before
\* the step: when the rewrite or the tag-ensure step leaves the text as it
\* was, the file is not written and is not reported as changed.
C13_AsStated ==
    /\ OnlyChangesWritten(fl_writes)
    /\ OnlyChangesWritten(mr_writes)

\* What framer_localize does guarantee: a style sheet is written only when
\* the rewrite changed it.
CssWrittenOnlyWhenChanged ==
    \A w \in fl_writes : w.file = "css" => ~w.same

\* the interruption came after some assets had been downloaded and before
\* the references to them were rewritten
CutBeforeRewrite == ix_cut.set /\ ix_cut.open # {}

\* the interrupted run and the run after it are over
Resumed == ix_phase = "resumed" /\ (fl_pc = "done" \/ mr_pc = "done")

\* the assets fetched before the interruption are on disk
FetchedOnDisk ==
    \A u \in ix_cut.fetched :
        IF fl_pc # "idle" THEN \E a \in ix_cut.assets : a[2] = u
        ELSE Exists(ix_cut.assets, ensure_unique_path(u))

\* at the interruption every document held the text the run started with
TextUnmodified == ix_cut.docs = ix_cut.before

\* the run after the interruption left what the uninterrupted run left
SameAsUninterrupted ==
    IF fl_pc # "idle"
    THEN fl_docs = ix_ref.docs /\ fl_assets = ix_ref.assets
    ELSE mr_html = ix_ref.docs /\ mr_files = ix_ref.assets

\* C14: if a run is interrupted after some assets have been downloaded and
\* before the references to them are rewritten, the downloaded assets are
\* on disk, no document text has been modified, and a complete run from
\* that state ends in the same documents and asset files as an
\* uninterrupted run from the original tree.
C14_AsStated ==
    CutBeforeRewrite =>
        /\ FetchedOnDisk
        /\ TextUnmodified
        /\ Resumed => SameAsUninterrupted

\* What does hold.  An interruption of mirror_framer between two statements
\* is harmless: the run after it leaves what the uninterrupted run leaves.
ResumeSafeBetweenStatements ==
    (CutBeforeRewrite /\ Resumed /\ mr_pc # "idle" /\ ~ix_cut.streaming)
        => SameAsUninterrupted

\* The same of framer_localize, when no URL of the tree continues another
\* (the order in which the keys are substituted does not matter then).
NoScaledPhoto ==
    \A k \in DOMAIN fl_tree0.docs : ~Occurs(fl_tree0.docs[k], PhotoUrlScaled)

ResumeSafeWithoutNestedUrls ==
    (CutBeforeRewrite /\ Resumed /\ fl_pc # "idle" /\ NoScaledPhoto)
        => SameAsUninterrupted

\* The HTML file is never modified before its own references are rewritten.
HtmlUnmodifiedAtCut ==
    (CutBeforeRewrite /\ fl_pc # "idle")
        => ix_cut.docs.html = ix_cut.before.html

=============================================================================
